---- MODULE Spec2Model ----
(***************************************************************************)
(* Model of src/src/earthquakes/tools.py: the haversine distance, the     *)
(* payout matcher (compute_payout_item), the yearly aggregator            *)
(* (compute_payouts) and the burning cost (compute_burning_cost); and of  *)
(* the concurrent retrieval of src/src/earthquakes/usgs_api.py            *)
(* (get_earthquake_data_for_multiple_locations).                          *)
(*                                                                         *)
(* Units.  Magnitudes, distances (km), payouts (percent) and coordinates  *)
(* (decimal degrees) are integers.  A time string is the sequence of its  *)
(* characters.  A pandas DataFrame is the sequence of its rows, a Python  *)
(* dict is the sequence of its (key, value) items in insertion order, and *)
(* a float quotient is the exact fraction [num, den].                     *)
(***************************************************************************)
EXTENDS Integers, Sequences, FiniteSets, TLC

VARIABLES
    pc,               \* where the caller / the running function is
    earthquake_data,  \* compute_payouts: the catalog (sequence of rows)
    payout_structure, \* compute_payouts, compute_payout_item: the tiers
    index,            \* position of the running loop in its input
    res,              \* compute_payouts: the dict being built
    payout_value,     \* compute_payouts: payout of the row just processed
    earthquake_event, \* compute_payout_item: the event
    returned,         \* outcomes of the finished calls, oldest first
    payouts,          \* compute_burning_cost: the yearly payout dict
    start_year,       \* compute_burning_cost: first year of the window
    end_year,         \* compute_burning_cost: last year of the window
    payout_sum,       \* compute_burning_cost: the running sum
    blist_lat,        \* get_haversine_distance: latitudes of the points B
    blist_lon,        \* get_haversine_distance: longitudes of the points B
    a_lat,            \* get_haversine_distance: latitude of point A
    a_lon,            \* get_haversine_distance: longitude of point A
    hv_res,           \* get_haversine_distance: the list being built
    assets,           \* get_earthquake_data_for_multiple_locations: the locations
    tasks,            \* the coroutines of the single locations, in asset order
    requests,         \* the queries the session sent, oldest first
    completed,        \* the tasks that ended, in the order they ended
    responses,        \* what asyncio.gather returned
    data_unit_list    \* the unit dataframes read so far

\* the variables of get_earthquake_data_for_multiple_locations
fetch_vars == <<assets, tasks, requests, completed, responses, data_unit_list>>

\* the inputs and locals of the functions of tools.py
tools_vars == <<earthquake_data, payout_structure, res, payout_value,
                earthquake_event, payouts, start_year, end_year, payout_sum,
                blist_lat, blist_lon, a_lat, a_lon, hv_res>>

vars == <<pc, index, returned, tools_vars, fetch_vars>>

-----------------------------------------------------------------------------
(* Bounds of the model *)

MaxCatalog == 2
MaxTiers == 2
MaxItemTiers == 3
MaxCalls == 1
MaxPipelineCalls == 2
MaxYears == 2
MaxTargets == 2
MaxAssets == 2

-----------------------------------------------------------------------------
(* Generic helpers *)

SeqsUpTo(S, n) == UNION {[1..k -> S] : k \in 0..n}

Range(s) == {s[i] : i \in 1..Len(s)}

\* Python's max(a, b)
max(a, b) == IF b > a THEN b ELSE a

\* The largest element of a non-empty finite set of integers
MaxOfSet(S) == CHOOSE m \in S : \A x \in S : x <= m

\* All the orderings of the rows of s
Permutations_of(s) ==
    {[i \in 1..Len(s) |-> s[p[i]]] :
        p \in {q \in [1..Len(s) -> 1..Len(s)] :
                  \A i, j \in 1..Len(s) : q[i] = q[j] => i = j}}

-----------------------------------------------------------------------------
(* datetime.datetime.strptime(text, EARTHQUAKE_TIME_FORMAT)                *)
(* EARTHQUAKE_TIME_FORMAT = "%Y-%m-%dT%H:%M:%S.%f%z"                       *)

Digits == {"0", "1", "2", "3", "4", "5", "6", "7", "8", "9"}

DigitVal(c) ==
    CASE c = "0" -> 0 [] c = "1" -> 1 [] c = "2" -> 2 [] c = "3" -> 3
      [] c = "4" -> 4 [] c = "5" -> 5 [] c = "6" -> 6 [] c = "7" -> 7
      [] c = "8" -> 8 [] c = "9" -> 9

\* s[i..i+k-1] are all digits
DigitsAt(s, i, k) == i + k - 1 <= Len(s) /\ \A j \in i..(i + k - 1) : s[j] \in Digits

RECURSIVE NumAt(_, _, _)
\* the number written by the k digits of s that start at i
NumAt(s, i, k) ==
    IF k = 0 THEN 0 ELSE NumAt(s, i, k - 1) * 10 + DigitVal(s[i + k - 1])

ParseFail == [ok |-> FALSE, pos |-> 0, val |-> 0]

\* a literal character of the format
Lit(s, p, c) ==
    IF p.ok /\ p.pos <= Len(s) /\ s[p.pos] = c
    THEN [p EXCEPT !.pos = @ + 1]
    ELSE ParseFail

\* a numeric directive: the longest run of at least mind and at most maxd
\* digits whose value lies in lo..hi
Field(s, p, mind, maxd, lo, hi) ==
    LET fits == {k \in mind..maxd :
                    DigitsAt(s, p.pos, k) /\ NumAt(s, p.pos, k) \in lo..hi}
    IN  IF p.ok /\ fits # {}
        THEN LET k == MaxOfSet(fits)
             IN  [ok |-> TRUE, pos |-> p.pos + k, val |-> NumAt(s, p.pos, k)]
        ELSE ParseFail

\* %z: "Z", or a sign, two digits, an optional colon and two digits (00..59)
Offset(s, p) ==
    IF ~p.ok \/ p.pos > Len(s) THEN ParseFail
    ELSE IF s[p.pos] = "Z" THEN [p EXCEPT !.pos = @ + 1]
    ELSE IF s[p.pos] \in {"+", "-"}
    THEN LET h == Field(s, [p EXCEPT !.pos = @ + 1], 2, 2, 0, 99)
             c == IF h.ok /\ h.pos <= Len(s) /\ s[h.pos] = ":"
                  THEN [h EXCEPT !.pos = @ + 1] ELSE h
         IN  Field(s, c, 2, 2, 0, 59)
    ELSE ParseFail

DaysInMonth(y, m) ==
    IF m = 2
    THEN (IF (y % 4 = 0 /\ y % 100 # 0) \/ y % 400 = 0 THEN 29 ELSE 28)
    ELSE IF m \in {4, 6, 9, 11} THEN 30 ELSE 31

\* [ok |-> TRUE, year |-> y] when text matches the format entirely and names
\* a real date; [ok |-> FALSE, ...] when strptime raises ValueError.  The
\* year is the one written in the text: the offset is parsed, not applied.
strptime(text) ==
    LET pY  == Field(text, [ok |-> TRUE, pos |-> 1, val |-> 0], 4, 4, 0, 9999)
        pm  == Field(text, Lit(text, pY, "-"), 1, 2, 1, 12)
        pd  == Field(text, Lit(text, pm, "-"), 1, 2, 1, 31)
        pH  == Field(text, Lit(text, pd, "T"), 1, 2, 0, 23)
        pM  == Field(text, Lit(text, pH, ":"), 1, 2, 0, 59)
        pS  == Field(text, Lit(text, pM, ":"), 1, 2, 0, 61)
        pf  == Field(text, Lit(text, pS, "."), 1, 6, 0, 999999)
        pz  == Offset(text, pf)
    IN  IF pz.ok /\ pz.pos = Len(text) + 1
           /\ pY.val >= 1 /\ pd.val <= DaysInMonth(pY.val, pm.val)
        THEN [ok |-> TRUE, year |-> pY.val]
        ELSE [ok |-> FALSE, year |-> 0]

-----------------------------------------------------------------------------
(* Input domains *)

\* "2020-03-15T10:20:30.000Z"
Time2020 == <<"2","0","2","0","-","0","3","-","1","5","T","1","0",":","2","0",":","3","0",".","0","0","0","Z">>
\* "2021-12-31T23:59:59.999-01:00"
Time2021 == <<"2","0","2","1","-","1","2","-","3","1","T","2","3",":","5","9",":","5","9",".","9","9","9","-","0","1",":","0","0">>
\* "2020-03-15 10:20:30": no T, no fraction, no offset
TimeNoT == <<"2","0","2","0","-","0","3","-","1","5"," ","1","0",":","2","0",":","3","0">>
\* "2019-02-30T10:20:30.000Z": matches the format, but is no date
TimeFeb30 == <<"2","0","1","9","-","0","2","-","3","0","T","1","0",":","2","0",":","3","0",".","0","0","0","Z">>

GoodTimes == {Time2020, Time2021}
BadTimes == {TimeNoT, TimeFeb30}
Times == GoodTimes \cup BadTimes

\* rows of the catalog: the columns compute_payouts reads
Row(t, m, d) == [time |-> t, mag |-> m, distance |-> d]
Tier(r, m, p) == [Radius |-> r, Magnitude |-> m, Payout |-> p]
Event(y, m, d) == [year |-> y, magnitude |-> m, distance |-> d]

\* the magnitude and distance of a row whose time is malformed are never read
CatalogRows ==
    {Row(t, e[1], e[2]) : t \in GoodTimes, e \in {<<7, 40>>, <<7, 80>>, <<5, 40>>}}
        \cup {Row(t, 7, 40) : t \in BadTimes}
CatalogTiers == {Tier(100, 6, 10), Tier(50, 6, 50), Tier(100, 6, 50)}

ItemEvents == {Event(2020, m, d) : m \in {5, 6, 7}, d \in {40, 50, 80}}
ItemTiers == {Tier(r, 6, p) : r \in {50, 100}, p \in {0, 10, 50}}

NoEvent == Event(0, 0, 0)

\* the rows and tiers of the caller that chains the functions
PipelineRows == {Row(t, e[1], e[2]) : t \in GoodTimes, e \in {<<7, 40>>, <<5, 40>>}}
PipelineTiers == {Tier(100, 6, 10), Tier(50, 6, 50)}
PipelineYears == {2020, 2021}

\* yearly payout dicts: items of distinct years
BurningYears == {2019, 2020, 2021}
BurningPayouts == {10, 25}
WindowYears == 2018..2022

\* asset locations, and what the USGS service may answer to a query: a
\* status and, with status 200, a csv text (its lines, the header first)
Locations == {[latitude |-> 0, longitude |-> 0], [latitude |-> 60, longitude |-> 120]}
CsvTexts == {<<"header">>, <<"header", "quake a">>, <<"header", "quake b">>}
Replies == {[status |-> 200, text |-> t] : t \in CsvTexts}
               \cup {[status |-> 404, text |-> <<>>]}

\* decimal degrees
Latitudes == {-60, 0, 60}
Longitudes == {-60, 0, 120}

-----------------------------------------------------------------------------
(* compute_payout_item *)

RECURSIVE payout_item_loop(_, _, _, _)
\* the for loop over the rows of payout_structure, from row i on, with res so far
payout_item_loop(event, structure, i, r) ==
    IF i > Len(structure) THEN r
    ELSE LET payout_item == structure[i]
         IN  IF event.distance <= payout_item.Radius
                /\ event.magnitude >= payout_item.Magnitude
             THEN payout_item_loop(event, structure, i + 1, max(r, payout_item.Payout))
             ELSE payout_item_loop(event, structure, i + 1, r)

\* compute_payout_item with "or" between the two criteria
compute_payout_item_either_criterion(event, structure) ==
    LET hit == {t \in Range(structure) :
                   event.distance <= t.Radius \/ event.magnitude >= t.Magnitude}
    IN  IF hit = {} THEN 0 ELSE max(0, MaxOfSet({t.Payout : t \in hit}))

\* compute_payout_item that stops at the first row that matches
compute_payout_item_first_match(event, structure) ==
    LET hit == {i \in 1..Len(structure) :
                   /\ event.distance <= structure[i].Radius
                   /\ event.magnitude >= structure[i].Magnitude}
    IN  IF hit = {} THEN 0
        ELSE structure[CHOOSE i \in hit : \A j \in hit : i <= j].Payout

compute_payout_item(event, structure) == payout_item_loop(event, structure, 1, 0)

-----------------------------------------------------------------------------
(* Python dict, as the sequence of its items in insertion order *)

Item(k, v) == [key |-> k, value |-> v]

Keys(d) == {d[i].key : i \in 1..Len(d)}

\* d[k], for k in d
DictGet(d, k) == (CHOOSE it \in Range(d) : it.key = k).value

\* d[k] = v: the value is replaced in place, or the item is appended
DictSet(d, k, v) ==
    IF k \in Keys(d)
    THEN [i \in 1..Len(d) |-> IF d[i].key = k THEN Item(k, v) ELSE d[i]]
    ELSE Append(d, Item(k, v))

\* outcomes of a call
Return(fn, v) == [fn |-> fn, kind |-> "return", value |-> v]
Raise(fn, e) == [fn |-> fn, kind |-> "raise", value |-> e]

-----------------------------------------------------------------------------
(* The caller calls compute_payout_item(earthquake_event, payout_structure) *)

ItemCall(calls) ==
    /\ pc = "idle"
    /\ Len(returned) < calls
    /\ returned' = Append(returned,
           Return("compute_payout_item",
                  compute_payout_item(earthquake_event, payout_structure)))
    /\ UNCHANGED <<pc, earthquake_data, payout_structure, index, res,
                   payout_value, earthquake_event, payouts, start_year,
                   end_year, payout_sum, blist_lat, blist_lon, a_lat, a_lon,
                   hv_res>>
    /\ UNCHANGED fetch_vars

-----------------------------------------------------------------------------
(* compute_payouts(earthquake_data, payout_structure) *)

\* the loop body with the year's value overwritten instead of max-merged
payouts_step_last_wins(r, earthquake_item, structure) ==
    LET parsed == strptime(earthquake_item.time)
        event == Event(parsed.year, earthquake_item.mag, earthquake_item.distance)
        value == compute_payout_item(event, structure)
    IN  IF ~parsed.ok
        THEN [raised |-> TRUE, res |-> r, event |-> NoEvent, value |-> 0]
        ELSE [raised |-> FALSE,
              res |-> IF value > 0 THEN DictSet(r, event.year, value) ELSE r,
              event |-> event,
              value |-> value]

\* the loop body without the "payout_value > 0" test
payouts_step_keeps_zero(r, earthquake_item, structure) ==
    LET parsed == strptime(earthquake_item.time)
        event == Event(parsed.year, earthquake_item.mag, earthquake_item.distance)
        value == compute_payout_item(event, structure)
    IN  IF ~parsed.ok
        THEN [raised |-> TRUE, res |-> r, event |-> NoEvent, value |-> 0]
        ELSE [raised |-> FALSE,
              res |-> IF event.year \in Keys(r)
                      THEN DictSet(r, event.year,
                                   max(DictGet(r, event.year), value))
                      ELSE DictSet(r, event.year, value),
              event |-> event,
              value |-> value]

\* the loop body with the ValueError caught and the row skipped
payouts_step_skips_malformed(r, earthquake_item, structure) ==
    LET parsed == strptime(earthquake_item.time)
        event == Event(parsed.year, earthquake_item.mag, earthquake_item.distance)
        value == compute_payout_item(event, structure)
    IN  IF ~parsed.ok
        THEN [raised |-> FALSE, res |-> r, event |-> NoEvent, value |-> 0]
        ELSE [raised |-> FALSE,
              res |-> IF value > 0
                      THEN IF event.year \in Keys(r)
                           THEN DictSet(r, event.year,
                                        max(DictGet(r, event.year), value))
                           ELSE DictSet(r, event.year, value)
                      ELSE r,
              event |-> event,
              value |-> value]

\* the body of the loop over earthquake_data.iterrows(): the row is parsed,
\* its payout computed and, when positive, merged into the dict r
payouts_step(r, earthquake_item, structure) ==
    LET parsed == strptime(earthquake_item.time)
        event == Event(parsed.year, earthquake_item.mag, earthquake_item.distance)
        value == compute_payout_item(event, structure)
    IN  IF ~parsed.ok
        THEN [raised |-> TRUE, res |-> r, event |-> NoEvent, value |-> 0]
        ELSE [raised |-> FALSE,
              res |-> IF value > 0
                      THEN IF event.year \in Keys(r)
                           THEN DictSet(r, event.year,
                                        max(DictGet(r, event.year), value))
                           ELSE DictSet(r, event.year, value)
                      ELSE r,
              event |-> event,
              value |-> value]

RECURSIVE payouts_loop(_, _, _, _)
\* the loop of compute_payouts from row i on, with the dict r so far
payouts_loop(data, structure, i, r) ==
    IF i > Len(data) THEN Return("compute_payouts", r)
    ELSE LET step == payouts_step(r, data[i], structure)
         IN  IF step.raised THEN Raise("compute_payouts", "ValueError")
             ELSE payouts_loop(data, structure, i + 1, step.res)

\* the outcome of a whole call
compute_payouts(data, structure) == payouts_loop(data, structure, 1, <<>>)

\* compute_payouts with the dict kept from one call to the next
PayoutsCall_keeps_dict(calls) ==
    /\ pc = "idle"
    /\ Len(returned) < calls
    /\ pc' = "payouts_loop"
    /\ index' = 1
    /\ payout_value' = 0
    /\ UNCHANGED <<earthquake_data, payout_structure, earthquake_event, res,
                   returned, payouts, start_year, end_year, payout_sum,
                   blist_lat, blist_lon, a_lat, a_lon, hv_res>>
    /\ UNCHANGED fetch_vars

\* res = dict()
PayoutsCall(calls) ==
    /\ pc = "idle"
    /\ Len(returned) < calls
    /\ pc' = "payouts_loop"
    /\ res' = <<>>
    /\ index' = 1
    /\ payout_value' = 0
    /\ UNCHANGED <<earthquake_data, payout_structure, earthquake_event,
                   returned, payouts, start_year, end_year, payout_sum,
                   blist_lat, blist_lon, a_lat, a_lon, hv_res>>
    /\ UNCHANGED fetch_vars

\* one iteration of the loop over earthquake_data.iterrows()
PayoutsIterate ==
    /\ pc = "payouts_loop"
    /\ index <= Len(earthquake_data)
    /\ LET step == payouts_step(res, earthquake_data[index], payout_structure)
       IN  IF step.raised
           THEN \* strptime raises ValueError: nothing catches it
                /\ pc' = "payouts_raise"
                /\ UNCHANGED <<res, index, payout_value, earthquake_event>>
           ELSE /\ earthquake_event' = step.event
                /\ payout_value' = step.value
                /\ res' = step.res
                /\ index' = index + 1
                /\ pc' = pc
    /\ UNCHANGED <<earthquake_data, payout_structure, returned, payouts,
                   start_year, end_year, payout_sum, blist_lat, blist_lon,
                   a_lat, a_lon, hv_res>>
    /\ UNCHANGED fetch_vars

\* return res
PayoutsReturn ==
    /\ pc = "payouts_loop"
    /\ index > Len(earthquake_data)
    /\ returned' = Append(returned, Return("compute_payouts", res))
    /\ pc' = "idle"
    /\ UNCHANGED <<earthquake_data, payout_structure, index, res, payout_value,
                   earthquake_event, payouts, start_year, end_year, payout_sum,
                   blist_lat, blist_lon, a_lat, a_lon, hv_res>>
    /\ UNCHANGED fetch_vars

\* the ValueError leaves compute_payouts: the caller gets no mapping
PayoutsRaise ==
    /\ pc = "payouts_raise"
    /\ returned' = Append(returned, Raise("compute_payouts", "ValueError"))
    /\ pc' = "idle"
    /\ UNCHANGED <<earthquake_data, payout_structure, index, res, payout_value,
                   earthquake_event, payouts, start_year, end_year, payout_sum,
                   blist_lat, blist_lon, a_lat, a_lon, hv_res>>
    /\ UNCHANGED fetch_vars

-----------------------------------------------------------------------------
(* compute_burning_cost(payouts, start_year, end_year) *)

\* the loop body without the test against end_year
burning_step_no_end_test(sum, it, first, last) ==
    IF first <= it.key THEN sum + it.value ELSE sum

\* the body of the loop over payouts.items(), with the sum so far
burning_step(sum, it, first, last) ==
    IF first <= it.key /\ it.key <= last THEN sum + it.value ELSE sum

\* payout_sum = 0
BurningCall(calls) ==
    /\ pc = "idle"
    /\ Len(returned) < calls
    /\ pc' = "burning_loop"
    /\ payout_sum' = 0
    /\ index' = 1
    /\ UNCHANGED <<earthquake_data, payout_structure, res, payout_value,
                   earthquake_event, returned, payouts, start_year, end_year,
                   blist_lat, blist_lon, a_lat, a_lon, hv_res>>
    /\ UNCHANGED fetch_vars

\* one iteration of the loop over payouts.items()
BurningIterate ==
    /\ pc = "burning_loop"
    /\ index <= Len(payouts)
    /\ payout_sum' = burning_step(payout_sum, payouts[index], start_year, end_year)
    /\ index' = index + 1
    /\ UNCHANGED <<pc, earthquake_data, payout_structure, res, payout_value,
                   earthquake_event, returned, payouts, start_year, end_year,
                   blist_lat, blist_lon, a_lat, a_lon, hv_res>>
    /\ UNCHANGED fetch_vars

\* res = payout_sum / (end_year - start_year + 1); return res
BurningReturn ==
    /\ pc = "burning_loop"
    /\ index > Len(payouts)
    /\ end_year - start_year + 1 # 0
    /\ returned' = Append(returned,
           Return("compute_burning_cost",
                  [num |-> payout_sum, den |-> end_year - start_year + 1]))
    /\ pc' = "idle"
    /\ UNCHANGED <<earthquake_data, payout_structure, index, res, payout_value,
                   earthquake_event, payouts, start_year, end_year, payout_sum,
                   blist_lat, blist_lon, a_lat, a_lon, hv_res>>
    /\ UNCHANGED fetch_vars

\* the division by zero of a window of length 0
BurningRaise ==
    /\ pc = "burning_loop"
    /\ index > Len(payouts)
    /\ end_year - start_year + 1 = 0
    /\ returned' = Append(returned,
                          Raise("compute_burning_cost", "ZeroDivisionError"))
    /\ pc' = "idle"
    /\ UNCHANGED <<earthquake_data, payout_structure, index, res, payout_value,
                   earthquake_event, payouts, start_year, end_year, payout_sum,
                   blist_lat, blist_lon, a_lat, a_lon, hv_res>>
    /\ UNCHANGED fetch_vars

-----------------------------------------------------------------------------
(* get_haversine_distance(blist_lat, blist_lon, a_lat, a_lon)              *)
(* Angles in radians are whole multiples of pi/3; sines and cosines are    *)
(* exact for them: sin_sq_half is 4*sin(x/2)**2 and cos_twice is 2*cos(x). *)

EARTH_RADIUS == 6378

\* math.radians, for the degrees of the model (multiples of 60)
radians(deg) == deg \div 60

sin_sq_half(x) == CASE x % 6 = 0 -> 0
                    [] x % 6 \in {1, 5} -> 1
                    [] x % 6 \in {2, 4} -> 3
                    [] x % 6 = 3 -> 4

cos_twice(x) == CASE x % 6 = 0 -> 2
                  [] x % 6 \in {1, 5} -> 1
                  [] x % 6 \in {2, 4} -> -1
                  [] x % 6 = 3 -> -2

\* 1000 * math.asin(math.sqrt(h / 16)), rounded, for h = 0..16
asin_sqrt_milli(h) ==
    <<0, 253, 361, 448, 524, 593, 659, 723, 785, 848, 912, 978, 1047, 1123,
      1209, 1318, 1571>>[h + 1]

\* the distance with the latitudes added instead of subtracted
haversine_sum_of_latitudes(b_lat, b_lon, pa_lat, pa_lon) ==
    LET a_lambda == radians(pa_lon)
        a_phi == radians(pa_lat)
        b_lambda == radians(b_lon)
        b_phi == radians(b_lat)
        h == 4 * sin_sq_half(b_phi + a_phi)
             + cos_twice(a_phi) * cos_twice(b_phi) * sin_sq_half(b_lambda - a_lambda)
    IN  (2 * EARTH_RADIUS * asin_sqrt_milli(h)) \div 1000

\* the distance in km between A and one point B; h is 16 times the
\* argument of the square root
haversine(b_lat, b_lon, pa_lat, pa_lon) ==
    LET a_lambda == radians(pa_lon)
        a_phi == radians(pa_lat)
        b_lambda == radians(b_lon)
        b_phi == radians(b_lat)
        h == 4 * sin_sq_half(b_phi - a_phi)
             + cos_twice(a_phi) * cos_twice(b_phi) * sin_sq_half(b_lambda - a_lambda)
    IN  (2 * EARTH_RADIUS * asin_sqrt_milli(h)) \div 1000

\* the number of pairs zip(blist_lat, blist_lon) yields
zip_len(xs, ys) == IF Len(xs) <= Len(ys) THEN Len(xs) ELSE Len(ys)

\* res = []
HaversineCall(calls) ==
    /\ pc = "idle"
    /\ Len(returned) < calls
    /\ pc' = "haversine_loop"
    /\ hv_res' = <<>>
    /\ index' = 1
    /\ UNCHANGED <<earthquake_data, payout_structure, res, payout_value,
                   earthquake_event, returned, payouts, start_year, end_year,
                   payout_sum, blist_lat, blist_lon, a_lat, a_lon>>
    /\ UNCHANGED fetch_vars

\* one iteration of the loop over zip(blist_lat, blist_lon)
HaversineIterate ==
    /\ pc = "haversine_loop"
    /\ index <= zip_len(blist_lat, blist_lon)
    /\ hv_res' = Append(hv_res,
                        haversine(blist_lat[index], blist_lon[index], a_lat, a_lon))
    /\ index' = index + 1
    /\ UNCHANGED <<pc, earthquake_data, payout_structure, res, payout_value,
                   earthquake_event, returned, payouts, start_year, end_year,
                   payout_sum, blist_lat, blist_lon, a_lat, a_lon>>
    /\ UNCHANGED fetch_vars

\* return res
HaversineReturn ==
    /\ pc = "haversine_loop"
    /\ index > zip_len(blist_lat, blist_lon)
    /\ returned' = Append(returned, Return("get_haversine_distance", hv_res))
    /\ pc' = "idle"
    /\ UNCHANGED <<earthquake_data, payout_structure, index, res, payout_value,
                   earthquake_event, payouts, start_year, end_year, payout_sum,
                   blist_lat, blist_lon, a_lat, a_lon, hv_res>>
    /\ UNCHANGED fetch_vars

-----------------------------------------------------------------------------
(* A caller that chains the functions *)

LastOutcome == returned[Len(returned)]

\* the caller passes the mapping compute_payouts returned to
\* compute_burning_cost
CallerUsesPayouts(calls) ==
    /\ pc = "idle"
    /\ Len(returned) < calls
    /\ returned # <<>>
    /\ LastOutcome.fn = "compute_payouts" /\ LastOutcome.kind = "return"
    /\ payouts # LastOutcome.value
    /\ payouts' = LastOutcome.value
    /\ UNCHANGED <<pc, earthquake_data, payout_structure, index, res,
                   payout_value, earthquake_event, returned, start_year,
                   end_year, payout_sum, blist_lat, blist_lon, a_lat, a_lon,
                   hv_res>>
    /\ UNCHANGED fetch_vars

\* the caller goes on with the catalog without its first row
CallerDropsRow(calls) ==
    /\ pc = "idle"
    /\ Len(returned) < calls
    /\ returned # <<>>
    /\ LastOutcome.fn = "compute_payouts"
    /\ earthquake_data # <<>>
    /\ earthquake_data' = Tail(earthquake_data)
    /\ UNCHANGED <<pc, payout_structure, index, res, payout_value,
                   earthquake_event, returned, payouts, start_year, end_year,
                   payout_sum, blist_lat, blist_lon, a_lat, a_lon, hv_res>>
    /\ UNCHANGED fetch_vars

-----------------------------------------------------------------------------
(* get_earthquake_data_for_multiple_locations(assets, radius, ...)         *)
(* One asyncio event loop runs the main coroutine and one task per asset   *)
(* location; a step of the model is the run of one of them from one await  *)
(* to the next.  The radius, the minimum magnitude and the end date are    *)
(* the same in every query and are left out of it.                         *)

HTTPCODE_OK == 200

\* build_api_query_parameters and build_api_url: the query of one location
build_api_query(latitude, longitude) ==
    [latitude |-> latitude, longitude |-> longitude, format |-> "csv"]

\* a task that asyncio.ensure_future has scheduled and that has not run yet
NewTask == [pc |-> "scheduled", status |-> 0, text |-> <<>>, data |-> <<>>]

\* the results in the order in which the tasks ended
gather_in_completion_order(ts, done) == [k \in 1..Len(done) |-> ts[done[k]].data]

\* asyncio.gather: the results of the tasks, in the order of the tasks
gather_results(ts, done) == [i \in 1..Len(ts) |-> ts[i].data]

\* pd.read_csv(io.StringIO(response)): the rows under the header line
read_csv(response) == Tail(response)

RECURSIVE concat(_)
\* pd.concat: the rows of the dataframes of the list, one dataframe after
\* the other
concat(frames) ==
    IF frames = <<>> THEN <<>> ELSE frames[1] \o concat(Tail(frames))

FetchFn == "get_earthquake_data_for_multiple_locations"

\* the session is opened and one task per row of assets is scheduled; the
\* main coroutine then awaits asyncio.gather
FetchCall(calls) ==
    /\ pc = "idle"
    /\ Len(returned) < calls
    /\ tasks' = [i \in 1..Len(assets) |-> NewTask]
    /\ requests' = <<>>
    /\ completed' = <<>>
    /\ responses' = <<>>
    /\ data_unit_list' = <<>>
    /\ pc' = "gathering"
    /\ UNCHANGED <<index, returned, assets, tools_vars>>

\* get_earthquake_data_for_single_location runs up to session.get(url):
\* the query of its location is sent
TaskRequest(i) ==
    /\ pc = "gathering"
    /\ tasks[i].pc = "scheduled"
    /\ requests' = Append(requests,
           [task |-> i,
            query |-> build_api_query(assets[i].latitude, assets[i].longitude)])
    /\ tasks' = [tasks EXCEPT ![i].pc = "requested"]
    /\ UNCHANGED <<pc, index, returned, assets, completed, responses,
                   data_unit_list, tools_vars>>

\* the answer arrives: assert response.status == HTTPCODE_OK
TaskResponse(i) ==
    /\ pc = "gathering"
    /\ tasks[i].pc = "requested"
    /\ \E reply \in Replies :
          IF reply.status = HTTPCODE_OK
          THEN /\ tasks' = [tasks EXCEPT ![i].pc = "reading",
                                         ![i].status = reply.status,
                                         ![i].text = reply.text]
               /\ UNCHANGED completed
          ELSE \* AssertionError: the task ends with the exception
               /\ tasks' = [tasks EXCEPT ![i].pc = "failed",
                                         ![i].status = reply.status]
               /\ completed' = Append(completed, i)
    /\ UNCHANGED <<pc, index, returned, assets, requests, responses,
                   data_unit_list, tools_vars>>

\* data = await response.text(); return data
TaskReturn(i) ==
    /\ pc = "gathering"
    /\ tasks[i].pc = "reading"
    /\ tasks' = [tasks EXCEPT ![i].pc = "done", ![i].data = tasks[i].text]
    /\ completed' = Append(completed, i)
    /\ UNCHANGED <<pc, index, returned, assets, requests, responses,
                   data_unit_list, tools_vars>>

\* every task returned: gather gives the main coroutine their results
GatherReturn ==
    /\ pc = "gathering"
    /\ \A i \in 1..Len(tasks) : tasks[i].pc = "done"
    /\ responses' = gather_results(tasks, completed)
    /\ data_unit_list' = <<>>
    /\ index' = 1
    /\ pc' = "merging"
    /\ UNCHANGED <<returned, assets, tasks, requests, completed, tools_vars>>

\* a task ended with the AssertionError: gather raises it in the main
\* coroutine, which leaves the session block (the session is closed, what
\* the other tasks still await is given up) and the function
GatherRaise ==
    /\ pc = "gathering"
    /\ \E i \in 1..Len(tasks) : tasks[i].pc = "failed"
    /\ returned' = Append(returned, Raise(FetchFn, "AssertionError"))
    /\ pc' = "idle"
    /\ UNCHANGED <<index, assets, tasks, requests, completed, responses,
                   data_unit_list, tools_vars>>

\* one iteration of the loop over responses
MergeIterate ==
    /\ pc = "merging"
    /\ index <= Len(responses)
    /\ data_unit_list' = Append(data_unit_list, read_csv(responses[index]))
    /\ index' = index + 1
    /\ UNCHANGED <<pc, returned, assets, tasks, requests, completed, responses,
                   tools_vars>>

\* data = pd.concat(data_unit_list); return data
MergeReturn ==
    /\ pc = "merging"
    /\ index > Len(responses)
    /\ data_unit_list # <<>>
    /\ returned' = Append(returned, Return(FetchFn, concat(data_unit_list)))
    /\ pc' = "idle"
    /\ UNCHANGED <<index, assets, tasks, requests, completed, responses,
                   data_unit_list, tools_vars>>

\* pd.concat of an empty list raises ValueError ("No objects to concatenate")
MergeRaise ==
    /\ pc = "merging"
    /\ index > Len(responses)
    /\ data_unit_list = <<>>
    /\ returned' = Append(returned, Raise(FetchFn, "ValueError"))
    /\ pc' = "idle"
    /\ UNCHANGED <<index, assets, tasks, requests, completed, responses,
                   data_unit_list, tools_vars>>

-----------------------------------------------------------------------------
(* Specifications *)

\* what the variables of the functions that are not running hold
Idle ==
    /\ pc = "idle"
    /\ index = 0
    /\ res = <<>>
    /\ payout_value = 0
    /\ returned = <<>>
    /\ payout_sum = 0
    /\ hv_res = <<>>

NoPayoutsInput == earthquake_data = <<>> /\ payout_structure = <<>>
NoItemInput == earthquake_event = NoEvent
NoBurningInput == payouts = <<>> /\ start_year = 0 /\ end_year = 0
NoHaversineInput == blist_lat = <<>> /\ blist_lon = <<>> /\ a_lat = 0 /\ a_lon = 0
NoFetchInput ==
    /\ assets = <<>> /\ tasks = <<>> /\ requests = <<>> /\ completed = <<>>
    /\ responses = <<>> /\ data_unit_list = <<>>

\* compute_payouts on every catalog and structure of the bounds
Init ==
    /\ Idle
    /\ earthquake_data \in SeqsUpTo(CatalogRows, MaxCatalog)
    /\ payout_structure \in SeqsUpTo(CatalogTiers, MaxTiers)
    /\ NoItemInput /\ NoBurningInput /\ NoHaversineInput /\ NoFetchInput

Next == PayoutsCall(MaxCalls) \/ PayoutsIterate \/ PayoutsReturn \/ PayoutsRaise

Spec == Init /\ [][Next]_vars

\* compute_payout_item on every event and structure of the bounds
InitItem ==
    /\ Idle
    /\ earthquake_event \in ItemEvents
    /\ payout_structure \in SeqsUpTo(ItemTiers, MaxItemTiers)
    /\ earthquake_data = <<>>
    /\ NoBurningInput /\ NoHaversineInput /\ NoFetchInput

NextItem == ItemCall(MaxCalls)

SpecItem == InitItem /\ [][NextItem]_vars

\* the dicts of at most n items of distinct years
Dicts(n) ==
    {d \in SeqsUpTo({Item(y, v) : y \in BurningYears, v \in BurningPayouts}, n) :
        \A i, j \in 1..Len(d) : d[i].key = d[j].key => i = j}

\* compute_burning_cost on every dict and window of the bounds
InitBurning ==
    /\ Idle
    /\ payouts \in Dicts(MaxYears)
    /\ start_year \in WindowYears
    /\ end_year \in WindowYears
    /\ NoPayoutsInput /\ NoItemInput /\ NoHaversineInput /\ NoFetchInput

NextBurning == BurningCall(MaxCalls) \/ BurningIterate \/ BurningReturn \/ BurningRaise

SpecBurning == InitBurning /\ [][NextBurning]_vars

\* get_haversine_distance on every point and lists of the bounds
InitHaversine ==
    /\ Idle
    /\ blist_lat \in SeqsUpTo(Latitudes, MaxTargets)
    /\ blist_lon \in SeqsUpTo(Longitudes, MaxTargets)
    /\ a_lat \in Latitudes
    /\ a_lon \in Longitudes
    /\ NoPayoutsInput /\ NoItemInput /\ NoBurningInput /\ NoFetchInput

NextHaversine == HaversineCall(MaxCalls) \/ HaversineIterate \/ HaversineReturn

SpecHaversine == InitHaversine /\ [][NextHaversine]_vars

\* a caller that calls compute_payouts and compute_burning_cost in turn
InitPipeline ==
    /\ Idle
    /\ earthquake_data \in SeqsUpTo(PipelineRows, MaxCatalog)
    /\ payout_structure \in SeqsUpTo(PipelineTiers, MaxTiers)
    /\ payouts = <<>>
    /\ start_year \in PipelineYears
    /\ end_year \in PipelineYears
    /\ NoItemInput /\ NoHaversineInput /\ NoFetchInput

NextPipeline ==
    \/ PayoutsCall(MaxPipelineCalls) \/ PayoutsIterate \/ PayoutsReturn
    \/ CallerUsesPayouts(MaxPipelineCalls) \/ CallerDropsRow(MaxPipelineCalls)
    \/ BurningCall(MaxPipelineCalls) \/ BurningIterate \/ BurningReturn \/ BurningRaise

SpecPipeline == InitPipeline /\ [][NextPipeline]_vars

\* get_earthquake_data_for_multiple_locations on every asset table of the
\* bounds, with every answer of the service and every interleaving
InitFetch ==
    /\ Idle
    /\ assets \in SeqsUpTo(Locations, MaxAssets)
    /\ tasks = <<>> /\ requests = <<>> /\ completed = <<>>
    /\ responses = <<>> /\ data_unit_list = <<>>
    /\ NoPayoutsInput /\ NoItemInput /\ NoBurningInput /\ NoHaversineInput

NextFetch ==
    \/ FetchCall(MaxCalls)
    \/ \E i \in 1..Len(tasks) : TaskRequest(i)
    \/ \E i \in 1..Len(tasks) : TaskResponse(i)
    \/ \E i \in 1..Len(tasks) : TaskReturn(i)
    \/ GatherReturn \/ GatherRaise
    \/ MergeIterate \/ MergeReturn \/ MergeRaise

SpecFetch == InitFetch /\ [][NextFetch]_vars

-----------------------------------------------------------------------------
(* Properties *)

\* a tier matches an event: both criteria hold
Matches(event, tier) ==
    event.distance <= tier.Radius /\ event.magnitude >= tier.Magnitude

\* the largest Payout among the matching tiers, 0 when there is none
MaxMatchingPayout(event, structure) ==
    LET hit == {t \in Range(structure) : Matches(event, t)}
    IN  IF hit = {} THEN 0 ELSE MaxOfSet({t.Payout : t \in hit})

Outcomes(fn) == {returned[i] : i \in {j \in 1..Len(returned) : returned[j].fn = fn}}

\* C1: compute_payout_item returns the largest Payout among the tiers whose
\* Radius is at least the event's distance and whose Magnitude is at most the
\* event's magnitude, and 0 when no tier meets both (or there is no tier).
C1_ItemIsMaxOfMatchingTiers ==
    \A o \in Outcomes("compute_payout_item") :
        /\ o.kind = "return"
        /\ o.value = MaxMatchingPayout(earthquake_event, payout_structure)

\* a call returned the payout of a matching tier although another tier, with
\* a larger payout, meets exactly one of the two criteria
C1_Witness ==
    /\ Outcomes("compute_payout_item") # {}
    /\ \E t1, t2, t3 \in Range(payout_structure) :
          /\ Matches(earthquake_event, t1)
          /\ t1.Payout > 0
          /\ \A o \in Outcomes("compute_payout_item") : o.value = t1.Payout
          /\ earthquake_event.distance > t2.Radius
          /\ earthquake_event.magnitude >= t2.Magnitude
          /\ t2.Payout > t1.Payout
          /\ Matches(earthquake_event, t3) /\ t3.Payout < t1.Payout

\* what strptime makes of each time string of the model
ParsedTime == [t \in Times |-> strptime(t)]

\* the rows of the catalog whose time parses to year y
RowsOfYear(y) ==
    {j \in 1..Len(earthquake_data) :
        LET parsed == ParsedTime[earthquake_data[j].time]
        IN  parsed.ok /\ parsed.year = y}

\* the payout of row j of the catalog
RowPayout(j) ==
    MaxMatchingPayout(Event(0, earthquake_data[j].mag, earthquake_data[j].distance),
                      payout_structure)

YearsOfModel == 2019..2022

\* the dict d is a mapping: no key twice
IsMapping(d) == \A i, j \in 1..Len(d) : d[i].key = d[j].key => i = j

\* C2: the mapping compute_payouts returns holds, for each of its years, the
\* largest payout among the catalog's events of that year (in whatever order
\* they come), it holds every year that has an event with a positive payout,
\* and it is empty for the empty catalog.
C2_YearlyMaximum ==
    \A o \in Outcomes("compute_payouts") :
        o.kind = "return" =>
            /\ IsMapping(o.value)
            /\ Keys(o.value) \subseteq YearsOfModel
            /\ \A y \in YearsOfModel :
                  LET p == {RowPayout(j) : j \in RowsOfYear(y)} \cup {0}
                  IN  /\ y \in Keys(o.value) <=> MaxOfSet(p) > 0
                      /\ y \in Keys(o.value) => DictGet(o.value, y) = MaxOfSet(p)
            /\ earthquake_data = <<>> => o.value = <<>>

\* a call returned a mapping whose value for a year is the payout of the
\* first event of the year, which is larger than the payout of the second
C2_Witness ==
    /\ Len(earthquake_data) = 2
    /\ \E y \in YearsOfModel :
          /\ RowsOfYear(y) = {1, 2}
          /\ RowPayout(1) > RowPayout(2)
          /\ RowPayout(2) > 0
          /\ \E o \in Outcomes("compute_payouts") :
                o.kind = "return" /\ o.value = <<Item(y, RowPayout(1))>>

\* C3: while compute_payouts runs and in what it returns, every value of the
\* dict is positive, and a year whose processed events all have payout 0 is
\* no key of it.
C3_NoZeroValue ==
    /\ \A it \in Range(res) : it.value > 0
    /\ \A o \in Outcomes("compute_payouts") :
          o.kind = "return" => \A it \in Range(o.value) : it.value > 0
    /\ pc = "payouts_loop" =>
          \A y \in YearsOfModel :
              (\A j \in RowsOfYear(y) : j < index => RowPayout(j) = 0)
                  => y \notin Keys(res)

\* a call returned a mapping without the year of an event of payout 0, after
\* an event of another year was stored
C3_Witness ==
    \E o \in Outcomes("compute_payouts") :
        /\ o.kind = "return"
        /\ Len(o.value) = 1
        /\ \E y \in YearsOfModel :
              /\ RowsOfYear(y) # {}
              /\ \A j \in RowsOfYear(y) : RowPayout(j) = 0
              /\ y \notin Keys(o.value)

\* row j of the catalog has a time that strptime rejects
Malformed(j) == ~ParsedTime[earthquake_data[j].time].ok

\* C6: when some row of the catalog has a time that does not parse, every
\* call of compute_payouts ends with the ValueError and returns no mapping,
\* wherever the row is.
C6_MalformedTimeRaises ==
    \A o \in Outcomes("compute_payouts") :
        (\E j \in 1..Len(earthquake_data) : Malformed(j))
            => o.kind = "raise" /\ o.value = "ValueError"

\* the call raised on a catalog whose first row is well formed and has a
\* positive payout and whose last row is malformed
C6_Witness ==
    /\ Len(earthquake_data) >= 2
    /\ ~Malformed(1) /\ RowPayout(1) > 0
    /\ Malformed(Len(earthquake_data))
    /\ \E o \in Outcomes("compute_payouts") : o.kind = "raise"

\* C7: the order of the tiers does not matter: the payout of every processed
\* event, and the outcome of compute_payouts, are those obtained with any
\* other ordering of the same tiers.
C7_TierOrderIrrelevant ==
    \A perm \in Permutations_of(payout_structure) :
        /\ (pc = "payouts_loop" /\ index > 1) =>
              payout_value = compute_payout_item(earthquake_event, perm)
        /\ (pc = "idle" /\ returned # <<>>) =>
              LastOutcome = compute_payouts(earthquake_data, perm)

\* a mapping was returned with two different tiers that both match an event,
\* the tier of the smaller payout coming last
C7_Witness ==
    /\ Len(payout_structure) >= 2
    /\ payout_structure[1].Payout > payout_structure[2].Payout
    /\ \E j \in 1..Len(earthquake_data) :
          /\ ~Malformed(j)
          /\ \A i \in 1..2 :
                Matches(Event(0, earthquake_data[j].mag, earthquake_data[j].distance),
                        payout_structure[i])
    /\ \E o \in Outcomes("compute_payouts") : o.kind = "return" /\ o.value # <<>>

RECURSIVE SumOfWindow(_, _, _)
\* the sum over the years first..last of the payout of the year in d, 0 for
\* a year that is no key of d
SumOfWindow(d, first, last) ==
    IF first > last THEN 0
    ELSE (IF first \in Keys(d) THEN DictGet(d, first) ELSE 0)
         + SumOfWindow(d, first + 1, last)

\* C4: for start_year <= end_year, compute_burning_cost returns the sum of
\* the payouts of the years of the window divided by the length of the
\* window, end_year - start_year + 1: years outside the window add nothing,
\* years without payout add 0, and a window without payout year gives 0.
C4_BurningCostIsWindowAverage ==
    start_year <= end_year =>
        \A o \in Outcomes("compute_burning_cost") :
            /\ o.kind = "return"
            /\ o.value.num = SumOfWindow(payouts, start_year, end_year)
            /\ o.value.den = end_year - start_year + 1
            /\ Keys(payouts) \cap (start_year..end_year) = {} => o.value.num = 0

\* a cost was returned for a dict with a year in the window and a year
\* outside it, over a window with a year without payout
C4_Witness ==
    /\ \E o \in Outcomes("compute_burning_cost") :
          o.kind = "return" /\ o.value.num > 0 /\ o.value.den >= 3
    /\ \E y1, y2 \in Keys(payouts) :
          y1 \in start_year..end_year /\ y2 > end_year
    /\ \E y \in start_year..end_year : y \notin Keys(payouts)

\* C5: with end_year < start_year, compute_burning_cost never returns a
\* number: every call ends with an error.
C5_InvalidWindowIsReported ==
    end_year < start_year =>
        \A o \in Outcomes("compute_burning_cost") : o.kind = "raise"

\* C8: get_haversine_distance returns one distance per target when the two
\* lists have the same length, and fails when they have not.
C8_NoPartialDistances ==
    \A o \in Outcomes("get_haversine_distance") :
        IF Len(blist_lat) = Len(blist_lon)
        THEN o.kind = "return" /\ Len(o.value) = Len(blist_lat)
        ELSE o.kind = "raise"

\* C9: a target at the latitude and longitude of point A has distance 0 in
\* the list get_haversine_distance builds and returns, whatever the others.
C9_CoincidentPointsAtZero ==
    /\ \A i \in 1..Len(hv_res) :
          (blist_lat[i] = a_lat /\ blist_lon[i] = a_lon) => hv_res[i] = 0
    /\ \A o \in Outcomes("get_haversine_distance") :
          \A i \in 1..Len(o.value) :
              (blist_lat[i] = a_lat /\ blist_lon[i] = a_lon) => o.value[i] = 0

\* a list was returned whose first target is away from A, off the equator,
\* and whose second target is A
C9_Witness ==
    /\ a_lat # 0 /\ a_lon # 0
    /\ \E o \in Outcomes("get_haversine_distance") :
          /\ Len(o.value) = 2
          /\ o.value[1] > 0
          /\ o.value[2] = 0
          /\ blist_lat[2] = a_lat /\ blist_lon[2] = a_lon

\* C10: no step of compute_payouts (compute_payout_item included) changes
\* the catalog or the structure, no step of compute_burning_cost changes
\* the mapping or the window, and what a call of compute_payouts returns is
\* what a first call on its arguments returns, whatever was called before.
C10_NoSideEffect ==
    [][/\ (pc # "idle" \/ pc' # "idle") =>
              /\ earthquake_data' = earthquake_data
              /\ payout_structure' = payout_structure
              /\ payouts' = payouts
              /\ start_year' = start_year /\ end_year' = end_year
       /\ (Len(returned') > Len(returned)
           /\ returned'[Len(returned')].fn = "compute_payouts") =>
              returned'[Len(returned')]
                  = compute_payouts(earthquake_data, payout_structure)
      ]_vars

\* a second call of compute_payouts, on a shorter catalog, returned fewer
\* years than the first
C10_Witness ==
    /\ Len(returned) = 2
    /\ returned[1].fn = "compute_payouts"
    /\ returned[2].fn = "compute_payouts"
    /\ Len(returned[2].value) < Len(returned[1].value)

\* the queries sent for the task of row i of assets
RequestsOf(i) == {k \in 1..Len(requests) : requests[k].task = i}

RECURSIVE RowsInAssetOrder(_)
\* the rows the service sent, location after location, up to location n
RowsInAssetOrder(n) ==
    IF n = 0 THEN <<>> ELSE RowsInAssetOrder(n - 1) \o Tail(tasks[n].text)

\* the call has ended: the tasks are those of the last outcome
Finished == pc = "idle" /\ returned # <<>>

\* the main coroutine is past asyncio.gather, or has returned a catalog
Merging == pc = "merging" \/ (Finished /\ LastOutcome.kind = "return")

\* C11: at most one query is ever sent per asset location, for its own
\* coordinates; merging starts only when every task has ended with a
\* result, each location then having exactly one query; a returned catalog
\* is the rows of every location's answer, once each, in asset order,
\* whatever the order in which the tasks ran and ended; with one location
\* or more, the call returns that catalog when every answer has status 200;
\* and no catalog is returned once an answer has another status.
C11_MergedInAssetOrder ==
    /\ \A i \in 1..Len(tasks) :
          /\ Cardinality(RequestsOf(i)) <= 1
          /\ \A k \in RequestsOf(i) :
                /\ requests[k].query.latitude = assets[i].latitude
                /\ requests[k].query.longitude = assets[i].longitude
    /\ Merging =>
          /\ Len(tasks) = Len(assets)
          /\ \A i \in 1..Len(tasks) :
                /\ tasks[i].pc = "done"
                /\ tasks[i].status = 200
                /\ Cardinality(RequestsOf(i)) = 1
    /\ Finished =>
          /\ LastOutcome.fn = FetchFn
          /\ LastOutcome.kind = "return" =>
                LastOutcome.value = RowsInAssetOrder(Len(assets))
          /\ (assets # <<>> /\ \A i \in 1..Len(tasks) : tasks[i].status = 200)
                => LastOutcome.kind = "return"
    /\ (\E i \in 1..Len(tasks) : tasks[i].status \notin {0, 200}) =>
          /\ pc # "merging"
          /\ Finished => LastOutcome.kind = "raise"

\* a catalog was returned for two locations whose queries were sent in one
\* order and answered in the other, with different rows
C11_Witness ==
    /\ Len(assets) = 2
    /\ Len(requests) = 2 /\ requests[1].task = 1
    /\ completed = <<2, 1>>
    /\ tasks[1].text = <<"header", "quake a">>
    /\ tasks[2].text = <<"header", "quake b">>
    /\ Finished
    /\ LastOutcome.kind = "return"
    /\ LastOutcome.value = <<"quake a", "quake b">>

====
